---- MODULE Spec2Model ----
(***************************************************************************)
(* Model of the gzip header reader of src/main.rs: GzipReader::            *)
(* read_gzip_header, GzipReader::handle_fextra and read_c_utf8_str, over   *)
(* a byte stream that ends where its bytes end.  One action is one call    *)
(* on the reader (or one decision between two calls); the log records      *)
(* every call made on the reader, in order.                                *)
(***************************************************************************)
EXTENDS Integers, Sequences, FiniteSets

VARIABLES
    stream,        \* the bytes the reader holds, fixed for the whole call
    pos,           \* number of bytes consumed from the reader
    pc,            \* position in read_gzip_header / handle_fextra / read_c_utf8_str
    m1_res, m2_res, method_res, flg_res, mtime_res, xfl_res, os_res,
    xlen,          \* handle_fextra: mut xlen (u16)
    len,           \* handle_fextra: len of the current subfield (u16)
    fextra_count,  \* handle_fextra: fextra_count, then the header's field
    chars,         \* read_c_utf8_str: chars
    fname, fcomment, fhcrc,
    result,        \* what read_gzip_header returned, once pc = "done"
    log            \* the calls made on the reader: [site, ok, v]

vars == <<stream, pos, pc, m1_res, m2_res, method_res, flg_res, mtime_res,
          xfl_res, os_res, xlen, len, fextra_count, chars, fname, fcomment,
          fhcrc, result, log>>

---------------------------------------------------------------------------
(* Program constants *)

FTEXT == 1
FHCRC == 2
FEXTRA == 4
FNAME == 8
FCOMMENT == 16

MAGIC1 == 31
MAGIC2 == 139

ErrPrefix == "malformed gzip header"
ErrMagic == "magic mismatch"
ErrFextra == "malformed FEXTRA"
ErrUtf8 == "expected utf8 string"
\* description() of the IoError a reader returns at the end of its bytes
ErrEof == "end of file"

\* flg & mask != 0, for a mask that is one bit
BitSet(flg, mask) == (flg \div mask) % 2 = 1

Ok(v) == [ok |-> TRUE, v |-> v, e |-> ""]
Err(e) == [ok |-> FALSE, v |-> 0, e |-> e]
None == <<>>
Some(x) == <<x>>
NoRes == Err("")

---------------------------------------------------------------------------
(* The Reader's calls: each returns the result and the new position *)

\* Reader::read_byte
read_byte(s, p) ==
    IF p < Len(s) THEN [res |-> Ok(s[p + 1]), pos |-> p + 1]
                  ELSE [res |-> Err(ErrEof), pos |-> p]

\* Reader::read_le_uint_n: n calls of read_byte, the first failure returned
RECURSIVE read_le_uint_n(_, _, _, _, _)
read_le_uint_n(s, p, n, shift, acc) ==
    IF n = 0 THEN [res |-> Ok(acc), pos |-> p]
    ELSE LET b == read_byte(s, p)
         IN  IF ~b.res.ok THEN [res |-> b.res, pos |-> b.pos]
             ELSE read_le_uint_n(s, b.pos, n - 1, shift * 256, acc + b.res.v * shift)

\* read_le_u16 reading one byte only
read_le_u16_Mut(s, p) == read_le_uint_n(s, p, 1, 1, 0)
read_le_u16(s, p) == read_le_uint_n(s, p, 2, 1, 0)
read_le_u32(s, p) == read_le_uint_n(s, p, 4, 1, 0)

\* Reader::read_exact(n): n bytes, or an error once the bytes run out
read_exact(s, p, n) ==
    IF p + n <= Len(s) THEN [res |-> Ok(n), pos |-> p + n]
                       ELSE [res |-> Err(ErrEof), pos |-> Len(s)]

\* u16 subtraction
SubU16(a, b) == (a - b) % 65536

---------------------------------------------------------------------------
(* String::from_utf8's validity test *)

IsCont(b) == b >= 128 /\ b <= 191

RECURSIVE IsUtf8(_)
IsUtf8(bs) ==
    IF bs = <<>> THEN TRUE
    ELSE LET b0 == bs[1]
             n == Len(bs)
         IN  IF b0 < 128 THEN IsUtf8(Tail(bs))
             ELSE IF b0 >= 194 /\ b0 <= 223
             THEN n >= 2 /\ IsCont(bs[2]) /\ IsUtf8(SubSeq(bs, 3, n))
             ELSE IF b0 >= 224 /\ b0 <= 239
             THEN /\ n >= 3
                  /\ \/ b0 = 224 /\ bs[2] >= 160 /\ bs[2] <= 191
                     \/ b0 >= 225 /\ b0 <= 236 /\ IsCont(bs[2])
                     \/ b0 = 237 /\ bs[2] >= 128 /\ bs[2] <= 159
                     \/ b0 >= 238 /\ IsCont(bs[2])
                  /\ IsCont(bs[3])
                  /\ IsUtf8(SubSeq(bs, 4, n))
             ELSE IF b0 >= 240 /\ b0 <= 244
             THEN /\ n >= 4
                  /\ \/ b0 = 240 /\ bs[2] >= 144 /\ bs[2] <= 191
                     \/ b0 >= 241 /\ b0 <= 243 /\ IsCont(bs[2])
                     \/ b0 = 244 /\ bs[2] >= 128 /\ bs[2] <= 143
                  /\ IsCont(bs[3])
                  /\ IsCont(bs[4])
                  /\ IsUtf8(SubSeq(bs, 5, n))
             ELSE FALSE

---------------------------------------------------------------------------
(* Input streams *)

MaxSub == 2        \* subfields written into an extra section
MaxText == 3       \* bytes of a freely chosen text tail
MaxPayload == 4    \* a subfield declaring more payload than this carries none

FlgVals == 0..31
MagicPairs == {<<MAGIC1, MAGIC2>>, <<MAGIC1, 0>>, <<0, MAGIC2>>}
XlenVals == {0, 3, 4, 5, 8, 10, 65535}
SublenVals == {0, 1, 20}
TextBytes == {0, 97, 195, 169}

\* the ten-byte fixed part: CM = 8, MTIME = 0x00000201, XFL = 0, OS = 3
Prefix(m, flg) == <<m[1], m[2], 8, flg, 1, 2, 0, 0, 0, 3>>

LE16(n) == <<n % 256, n \div 256>>

Subfield(sl) ==
    <<65, 112>> \o LE16(sl) \o
    [i \in 1..(IF sl <= MaxPayload THEN sl ELSE 0) |-> 85]

RECURSIVE Subfields(_)
Subfields(sls) ==
    IF sls = <<>> THEN <<>> ELSE Subfield(Head(sls)) \o Subfields(Tail(sls))

SeqsUpTo(S, n) == UNION {[1..k -> S] : k \in 0..n}

\* XLEN followed by subfields; the declared xlen need not match them
Extras == {LE16(xl) \o Subfields(sls) :
               xl \in XlenVals, sls \in SeqsUpTo(SublenVals, MaxSub)}
FewExtras == {<<>>, LE16(4) \o Subfield(0)}

Texts == SeqsUpTo(TextBytes, MaxText)
FewTails == {<<>>, <<0>>, <<97, 98, 0, 99, 0, 18, 52, 153>>,
             <<255, 0, 97, 0, 1>>, <<0, 0, 7, 9, 31, 139>>}

Prefixes(s) == {SubSeq(s, 1, n) : n \in 0..Len(s)}

Streams ==
    UNION {Prefixes(Prefix(m, f)) : m \in MagicPairs, f \in FlgVals}
    \cup {Prefix(m, f) \o t : m \in MagicPairs, f \in {0, 8, 31}, t \in FewTails}
    \cup {Prefix(<<MAGIC1, MAGIC2>>, f) \o e \o t :
              f \in FlgVals, e \in Extras, t \in FewTails}
    \cup UNION {Prefixes(Prefix(<<MAGIC1, MAGIC2>>, f) \o e) :
              f \in {4, 31}, e \in Extras}
    \cup {Prefix(<<MAGIC1, MAGIC2>>, f) \o e \o t :
              f \in FlgVals, e \in FewExtras, t \in Texts}

---------------------------------------------------------------------------
(* State *)

Pending == <<>>
RetErr(e) == <<"Err", e>>
RetOk(h) == <<"Ok", h>>

Init ==
    /\ stream \in Streams
    /\ pos = 0
    /\ pc = "m1"
    /\ m1_res = NoRes /\ m2_res = NoRes /\ method_res = NoRes
    /\ flg_res = NoRes /\ mtime_res = NoRes /\ xfl_res = NoRes
    /\ os_res = NoRes
    /\ xlen = 0 /\ len = 0 /\ fextra_count = 0
    /\ chars = <<>>
    /\ fname = None /\ fcomment = None /\ fhcrc = None
    /\ result = Pending
    /\ log = <<>>

Logged(site, r) == Append(log, [site |-> site, ok |-> r.res.ok, v |-> r.res.v])

prefixVars == <<m1_res, m2_res, method_res, flg_res, mtime_res, xfl_res, os_res>>
extraVars == <<xlen, len, fextra_count>>
textVars == <<chars, fname, fcomment>>

flg == flg_res.v

---------------------------------------------------------------------------
(* read_gzip_header: the seven reads of the fixed part, lines 74-80.  Each  *)
(* is made whatever the earlier ones returned.                              *)

ReadM1 ==
    /\ pc = "m1"
    /\ LET r == read_byte(stream, pos)
       IN  /\ m1_res' = r.res /\ pos' = r.pos /\ log' = Logged("m1", r)
    /\ pc' = "m2"
    /\ UNCHANGED <<stream, m2_res, method_res, flg_res, mtime_res, xfl_res,
                   os_res, extraVars, textVars, fhcrc, result>>

ReadM2 ==
    /\ pc = "m2"
    /\ LET r == read_byte(stream, pos)
       IN  /\ m2_res' = r.res /\ pos' = r.pos /\ log' = Logged("m2", r)
    /\ pc' = "method"
    /\ UNCHANGED <<stream, m1_res, method_res, flg_res, mtime_res, xfl_res,
                   os_res, extraVars, textVars, fhcrc, result>>

ReadMethod ==
    /\ pc = "method"
    /\ LET r == read_byte(stream, pos)
       IN  /\ method_res' = r.res /\ pos' = r.pos /\ log' = Logged("method", r)
    /\ pc' = "flg"
    /\ UNCHANGED <<stream, m1_res, m2_res, flg_res, mtime_res, xfl_res,
                   os_res, extraVars, textVars, fhcrc, result>>

ReadFlg ==
    /\ pc = "flg"
    /\ LET r == read_byte(stream, pos)
       IN  /\ flg_res' = r.res /\ pos' = r.pos /\ log' = Logged("flg", r)
    /\ pc' = "mtime"
    /\ UNCHANGED <<stream, m1_res, m2_res, method_res, mtime_res, xfl_res,
                   os_res, extraVars, textVars, fhcrc, result>>

ReadMtime ==
    /\ pc = "mtime"
    /\ LET r == read_le_u32(stream, pos)
       IN  /\ mtime_res' = r.res /\ pos' = r.pos /\ log' = Logged("mtime", r)
    /\ pc' = "xfl"
    /\ UNCHANGED <<stream, m1_res, m2_res, method_res, flg_res, xfl_res,
                   os_res, extraVars, textVars, fhcrc, result>>

ReadXfl ==
    /\ pc = "xfl"
    /\ LET r == read_byte(stream, pos)
       IN  /\ xfl_res' = r.res /\ pos' = r.pos /\ log' = Logged("xfl", r)
    /\ pc' = "os"
    /\ UNCHANGED <<stream, m1_res, m2_res, method_res, flg_res, mtime_res,
                   os_res, extraVars, textVars, fhcrc, result>>

ReadOs ==
    /\ pc = "os"
    /\ LET r == read_byte(stream, pos)
       IN  /\ os_res' = r.res /\ pos' = r.pos /\ log' = Logged("os", r)
    /\ pc' = "check"
    /\ UNCHANGED <<stream, m1_res, m2_res, method_res, flg_res, mtime_res,
                   xfl_res, extraVars, textVars, fhcrc, result>>

\* lines 82-87: the is_err() chain
AnyPrefixErr ==
    \/ ~m1_res.ok \/ ~m2_res.ok \/ ~method_res.ok \/ ~flg_res.ok
    \/ ~mtime_res.ok \/ ~xfl_res.ok \/ ~os_res.ok

\* line 100 with && written for ||
MagicMismatch_Mut(m1, m2) == m1 # MAGIC1 /\ m2 # MAGIC2

\* line 100
MagicMismatch(m1, m2) == m1 # MAGIC1 \/ m2 # MAGIC2

\* lines 82-102
CheckPrefix ==
    /\ pc = "check"
    /\ IF AnyPrefixErr
       THEN result' = RetErr(ErrPrefix) /\ pc' = "done"
       ELSE IF MagicMismatch(m1_res.v, m2_res.v)
       THEN result' = RetErr(ErrMagic) /\ pc' = "done"
       ELSE result' = result /\ pc' = "fextra"
    /\ UNCHANGED <<stream, pos, prefixVars, extraVars, textVars, fhcrc, log>>

---------------------------------------------------------------------------
(* handle_fextra, called at line 110 *)

\* lines 108-113
DecideFextra ==
    /\ pc = "fextra"
    /\ IF BitSet(flg, FEXTRA)
       THEN pc' = "xlen" /\ fextra_count' = fextra_count
       ELSE pc' = "fname" /\ fextra_count' = 0
    /\ UNCHANGED <<stream, pos, prefixVars, xlen, len, textVars, fhcrc,
                   result, log>>

\* lines 32-36
ReadXlen ==
    /\ pc = "xlen"
    /\ LET r == read_le_u16(stream, pos)
       IN  /\ pos' = r.pos /\ log' = Logged("xlen", r)
           /\ IF r.res.ok
              THEN /\ xlen' = r.res.v /\ fextra_count' = 0
                   /\ pc' = "while" /\ result' = result
              ELSE /\ result' = RetErr(r.res.e) /\ pc' = "done"
                   /\ UNCHANGED <<xlen, fextra_count>>
    /\ UNCHANGED <<stream, prefixVars, len, textVars, fhcrc>>

\* line 38 with 3 written for 4
TooShort_Mut(x) == x < 3

\* line 38
TooShort(x) == x < 4

\* lines 37-40 and line 70
WhileXlen ==
    /\ pc = "while"
    /\ IF xlen > 0
       THEN IF TooShort(xlen)
            THEN result' = RetErr(ErrFextra) /\ pc' = "done"
            ELSE result' = result /\ pc' = "tag1"
       ELSE result' = result /\ pc' = "fname"
    /\ UNCHANGED <<stream, pos, prefixVars, extraVars, textVars, fhcrc, log>>

\* lines 43-46 with the Err arm dropped
ReadTag1_Mut ==
    /\ pc = "tag1"
    /\ LET r == read_byte(stream, pos)
       IN  /\ pos' = r.pos /\ log' = Logged("tag1", r)
    /\ result' = result /\ pc' = "tag2"
    /\ UNCHANGED <<stream, prefixVars, extraVars, textVars, fhcrc>>

\* lines 43-46
ReadTag1 ==
    /\ pc = "tag1"
    /\ LET r == read_byte(stream, pos)
       IN  /\ pos' = r.pos /\ log' = Logged("tag1", r)
           /\ IF r.res.ok
              THEN result' = result /\ pc' = "tag2"
              ELSE result' = RetErr(r.res.e) /\ pc' = "done"
    /\ UNCHANGED <<stream, prefixVars, extraVars, textVars, fhcrc>>

\* lines 47-50
ReadTag2 ==
    /\ pc = "tag2"
    /\ LET r == read_byte(stream, pos)
       IN  /\ pos' = r.pos /\ log' = Logged("tag2", r)
           /\ IF r.res.ok
              THEN result' = result /\ pc' = "sublen"
              ELSE result' = RetErr(r.res.e) /\ pc' = "done"
    /\ UNCHANGED <<stream, prefixVars, extraVars, textVars, fhcrc>>

\* line 56
AfterHead(x) == SubU16(x, 4)

\* line 57 with <= written for <
Overrun_Mut(x, l) == x <= l

\* line 57
Overrun(x, l) == x < l

\* lines 52-59
ReadSublen ==
    /\ pc = "sublen"
    /\ LET r == read_le_u16(stream, pos)
       IN  /\ pos' = r.pos /\ log' = Logged("sublen", r)
           /\ IF r.res.ok
              THEN /\ len' = r.res.v
                   /\ xlen' = AfterHead(xlen)
                   /\ IF Overrun(xlen', len')
                      THEN result' = RetErr(ErrFextra) /\ pc' = "done"
                      ELSE result' = result /\ pc' = "payload"
              ELSE /\ result' = RetErr(r.res.e) /\ pc' = "done"
                   /\ UNCHANGED <<xlen, len>>
    /\ UNCHANGED <<stream, prefixVars, fextra_count, textVars, fhcrc>>

\* line 67 left out
AfterPayload_Mut(x, l) == x

\* line 67
AfterPayload(x, l) == SubU16(x, l)

\* lines 62-68
ReadPayload ==
    /\ pc = "payload"
    /\ LET r == read_exact(stream, pos, len)
       IN  /\ pos' = r.pos /\ log' = Logged("payload", r)
           /\ IF r.res.ok
              THEN /\ xlen' = AfterPayload(xlen, len)
                   /\ fextra_count' = fextra_count + 1
                   /\ result' = result /\ pc' = "while"
              ELSE /\ result' = RetErr(r.res.e) /\ pc' = "done"
                   /\ UNCHANGED <<xlen, fextra_count>>
    /\ UNCHANGED <<stream, prefixVars, len, textVars, fhcrc>>

---------------------------------------------------------------------------
(* read_c_utf8_str, called at lines 117 and 124 *)

BytePc(field) == IF field = "name" THEN "namebyte" ELSE "commentbyte"
Utf8Pc(field) == IF field = "name" THEN "nameutf8" ELSE "commentutf8"
\* lines 116 and 123 with the two masks exchanged
FieldBit_Mut(field) == IF field = "name" THEN FCOMMENT ELSE FNAME
FieldBit(field) == IF field = "name" THEN FNAME ELSE FCOMMENT
FieldPc(field) == IF field = "name" THEN "fname" ELSE "fcomment"
NextPc(field) == IF field = "name" THEN "fcomment" ELSE "fhcrc"

\* lines 115-120 and 122-127: the flag test, and line 155
DecideText(field) ==
    /\ pc = FieldPc(field)
    /\ IF BitSet(flg, FieldBit(field))
       THEN /\ pc' = BytePc(field) /\ chars' = <<>>
            /\ UNCHANGED <<fname, fcomment>>
       ELSE /\ pc' = NextPc(field) /\ chars' = chars
            /\ fname' = (IF field = "name" THEN None ELSE fname)
            /\ fcomment' = (IF field = "comment" THEN None ELSE fcomment)
    /\ UNCHANGED <<stream, pos, prefixVars, extraVars, fhcrc, result, log>>

\* line 159
IsTerminator(b) == b = 0

\* lines 156-164 with the push placed before the match
ReadStrByte_Mut(field) ==
    /\ pc = BytePc(field)
    /\ LET r == read_byte(stream, pos)
       IN  /\ pos' = r.pos /\ log' = Logged(BytePc(field), r)
           /\ IF ~r.res.ok
              THEN /\ result' = RetErr(r.res.e) /\ pc' = "done"
                   /\ chars' = chars
              ELSE IF IsTerminator(r.res.v)
              THEN /\ result' = result /\ pc' = Utf8Pc(field)
                   /\ chars' = Append(chars, r.res.v)
              ELSE /\ result' = result /\ pc' = pc
                   /\ chars' = Append(chars, r.res.v)
    /\ UNCHANGED <<stream, prefixVars, extraVars, fname, fcomment, fhcrc>>

\* lines 156-164: one turn of the loop
ReadStrByte(field) ==
    /\ pc = BytePc(field)
    /\ LET r == read_byte(stream, pos)
       IN  /\ pos' = r.pos /\ log' = Logged(BytePc(field), r)
           /\ IF ~r.res.ok
              THEN /\ result' = RetErr(r.res.e) /\ pc' = "done"
                   /\ chars' = chars
              ELSE IF IsTerminator(r.res.v)
              THEN /\ result' = result /\ pc' = Utf8Pc(field)
                   /\ chars' = chars
              ELSE /\ result' = result /\ pc' = pc
                   /\ chars' = Append(chars, r.res.v)
    /\ UNCHANGED <<stream, prefixVars, extraVars, fname, fcomment, fhcrc>>

\* lines 166-169 with the bytes taken as text unchecked
FromUtf8_Mut(field) ==
    /\ pc = Utf8Pc(field)
    /\ result' = result /\ pc' = NextPc(field)
    /\ fname' = (IF field = "name" THEN Some(chars) ELSE fname)
    /\ fcomment' = (IF field = "comment" THEN Some(chars) ELSE fcomment)
    /\ UNCHANGED <<stream, pos, prefixVars, extraVars, chars, fhcrc, log>>

\* lines 166-169, and the Some(..) of lines 117 and 124
FromUtf8(field) ==
    /\ pc = Utf8Pc(field)
    /\ IF IsUtf8(chars)
       THEN /\ result' = result /\ pc' = NextPc(field)
            /\ fname' = (IF field = "name" THEN Some(chars) ELSE fname)
            /\ fcomment' = (IF field = "comment" THEN Some(chars) ELSE fcomment)
       ELSE /\ result' = RetErr(ErrUtf8) /\ pc' = "done"
            /\ UNCHANGED <<fname, fcomment>>
    /\ UNCHANGED <<stream, pos, prefixVars, extraVars, chars, fhcrc, log>>

---------------------------------------------------------------------------
(* read_gzip_header: the header CRC and the value returned *)

\* lines 129-130 and 135-137
DecideFhcrc ==
    /\ pc = "fhcrc"
    /\ IF BitSet(flg, FHCRC)
       THEN pc' = "hcrc" /\ fhcrc' = fhcrc
       ELSE pc' = "ok" /\ fhcrc' = None
    /\ UNCHANGED <<stream, pos, prefixVars, extraVars, textVars, result, log>>

\* lines 131-134 with the fixed part's message for the Err arm
ReadHcrc_Mut ==
    /\ pc = "hcrc"
    /\ LET r == read_le_u16(stream, pos)
       IN  /\ pos' = r.pos /\ log' = Logged("hcrc", r)
           /\ IF r.res.ok
              THEN fhcrc' = Some(r.res.v) /\ result' = result /\ pc' = "ok"
              ELSE fhcrc' = fhcrc /\ result' = RetErr(ErrPrefix) /\ pc' = "done"
    /\ UNCHANGED <<stream, prefixVars, extraVars, textVars>>

\* lines 131-134
ReadHcrc ==
    /\ pc = "hcrc"
    /\ LET r == read_le_u16(stream, pos)
       IN  /\ pos' = r.pos /\ log' = Logged("hcrc", r)
           /\ IF r.res.ok
              THEN fhcrc' = Some(r.res.v) /\ result' = result /\ pc' = "ok"
              ELSE fhcrc' = fhcrc /\ result' = RetErr(r.res.e) /\ pc' = "done"
    /\ UNCHANGED <<stream, prefixVars, extraVars, textVars>>

\* lines 139-149
Header ==
    [method |-> method_res.v, flg |-> flg, mtime |-> mtime_res.v,
     xfl |-> xfl_res.v, os |-> os_res.v, fextra_count |-> fextra_count,
     fname |-> fname, fcomment |-> fcomment, fhcrc |-> fhcrc]

ReturnOk ==
    /\ pc = "ok"
    /\ result' = RetOk(Header)
    /\ pc' = "done"
    /\ UNCHANGED <<stream, pos, prefixVars, extraVars, textVars, fhcrc, log>>

Next ==
    \/ ReadM1 \/ ReadM2 \/ ReadMethod \/ ReadFlg \/ ReadMtime \/ ReadXfl
    \/ ReadOs \/ CheckPrefix
    \/ DecideFextra \/ ReadXlen \/ WhileXlen \/ ReadTag1 \/ ReadTag2
    \/ ReadSublen \/ ReadPayload
    \/ DecideText("name") \/ ReadStrByte("name") \/ FromUtf8("name")
    \/ DecideText("comment") \/ ReadStrByte("comment") \/ FromUtf8("comment")
    \/ DecideFhcrc \/ ReadHcrc \/ ReturnOk

Spec == Init /\ [][Next]_vars

---------------------------------------------------------------------------
(* What the properties speak of *)

Done == pc = "done"
Succeeded == Done /\ result[1] = "Ok"
FailedWith(e) == Done /\ result = RetErr(e)

PrefixSites == {"m1", "m2", "method", "flg", "mtime", "xfl", "os"}
PrefixOrder == <<"m1", "m2", "method", "flg", "mtime", "xfl", "os">>
ExtraSites == {"xlen", "tag1", "tag2", "sublen", "payload"}

At(site) == SelectSeq(log, LAMBDA en : en.site = site)
ReadFailed == \E i \in 1..Len(log) : ~log[i].ok
LastRead == log[Len(log)]

RECURSIVE SumV(_)
SumV(es) == IF es = <<>> THEN 0 ELSE Head(es).v + SumV(Tail(es))

\* the stream's own bytes, read off without the decoder
BadMagic == stream[1] # 31 \/ stream[2] # 139
StreamFlg == stream[4]
Has(mask) == (StreamFlg \div mask) % 2 = 1
DeclaredXlen == stream[11] + 256 * stream[12]

\* index of the first zero byte of the stream after index i, 0 if none
RECURSIVE ZeroAfter(_)
ZeroAfter(i) ==
    IF i >= Len(stream) THEN 0
    ELSE IF stream[i + 1] = 0 THEN i + 1 ELSE ZeroAfter(i + 1)

---------------------------------------------------------------------------
(* C1 *)

\* C1 as stated: a stream of at least 2 bytes whose first two are not
\* 0x1F 0x8B fails with "magic mismatch", never with the truncated-header
\* error, even when it ends right after them.
C1_AsStated ==
    (Done /\ Len(stream) >= 2 /\ BadMagic) => result = RetErr(ErrMagic)

\* C1 amended: the magic is tested only after all ten bytes of the fixed
\* part were read: a stream of at least 10 bytes with a wrong magic fails
\* with "magic mismatch", a stream of fewer than 10 bytes fails with
\* "malformed gzip header" whatever its first two bytes are, and no other
\* stream gives either error.
C1_MagicAfterWholePrefix ==
    Done =>
        /\ (Len(stream) >= 10 /\ BadMagic) <=> result = RetErr(ErrMagic)
        /\ Len(stream) < 10 <=> result = RetErr(ErrPrefix)

C1_Witness ==
    /\ FailedWith(ErrMagic) /\ Len(stream) = 10
    /\ stream[1] = 31 /\ stream[2] # 139

---------------------------------------------------------------------------
(* C2 *)

\* C2 as stated: once a read has failed no further read is attempted, and
\* a call in which a read failed returns an error.
C2_AsStated ==
    /\ \A i \in 1..Len(log) : ~log[i].ok => i = Len(log)
    /\ (Done /\ ReadFailed) => result[1] = "Err"

\* C2 amended: the seven reads of the fixed part are all attempted, once
\* each and in order, whatever the earlier ones returned; after the fixed
\* part the first failed read is the last read; no failed read is tried
\* again; once an error is returned nothing more happens, and a call in
\* which any read failed returns an error and no header.
C2_StopsAtFirstErrorAfterPrefix ==
    /\ \A i \in 1..Len(log) :
           /\ i <= 7 => log[i].site = PrefixOrder[i]
           /\ i > 7 => log[i].site \notin PrefixSites
           /\ (~log[i].ok /\ i > 7) => i = Len(log)
           /\ ~log[i].ok => \A j \in (i + 1)..Len(log) : log[j].site # log[i].site
    /\ pc \notin PrefixSites => Len(log) >= 7
    /\ (ReadFailed /\ pc \notin PrefixSites \cup {"check"}) =>
           (Done /\ result[1] = "Err")
    /\ result # Pending => (Done /\ ~ENABLED Next)

C2_Witness ==
    /\ Done /\ Len(log) = 7
    /\ ~log[2].ok /\ ~log[7].ok /\ result[1] = "Err"

---------------------------------------------------------------------------
(* C3 *)

\* C3: in a returned header, name is present iff flg & 0x08, comment iff
\* flg & 0x10, the header CRC iff flg & 0x02, and the subfield count is 0
\* when flg & 0x04 is clear.
C3_PresenceFollowsFlags ==
    Succeeded =>
        LET h == result[2]
        IN  /\ h.flg = StreamFlg
            /\ (h.fname # None) <=> ((h.flg \div 8) % 2 = 1)
            /\ (h.fcomment # None) <=> ((h.flg \div 16) % 2 = 1)
            /\ (h.fhcrc # None) <=> ((h.flg \div 2) % 2 = 1)
            /\ ((h.flg \div 4) % 2 = 0) => h.fextra_count = 0

C3_Witness ==
    /\ Succeeded /\ StreamFlg = 9
    /\ result[2].fname = Some(<<97>>) /\ result[2].fcomment = None
    /\ result[2].fhcrc = None /\ Len(stream) > pos

---------------------------------------------------------------------------
(* C4 *)

ExpectedConsumed(h) ==
    10 + (IF Has(4) THEN 2 + DeclaredXlen ELSE 0)
       + (IF Has(8) THEN Len(h.fname[1]) + 1 ELSE 0)
       + (IF Has(16) THEN Len(h.fcomment[1]) + 1 ELSE 0)
       + (IF Has(2) THEN 2 ELSE 0)

\* C4: a successful call has consumed exactly 10 bytes, plus 2 + xlen with
\* FEXTRA, plus the length of the name + 1 with FNAME, plus the length of
\* the comment + 1 with FCOMMENT, plus 2 with FHCRC; with none of these
\* bits exactly 10.
C4_ConsumesExactlyTheHeader ==
    Succeeded =>
        /\ pos = ExpectedConsumed(result[2])
        /\ pos <= Len(stream)
        /\ (~Has(2) /\ ~Has(4) /\ ~Has(8) /\ ~Has(16)) => pos = 10

C4_Witness ==
    /\ Succeeded /\ StreamFlg = 31 /\ DeclaredXlen = 5
    /\ result[2].fname = Some(<<97, 98>>) /\ result[2].fcomment = Some(<<99>>)
    /\ pos = 24 /\ Len(stream) = 25

---------------------------------------------------------------------------
(* C5 *)

\* C5 as stated: whichever read failed, the call returns the one error
\* that a failed read of the fixed part returns.
C5_AsStated ==
    (Done /\ ReadFailed) => result = RetErr(ErrPrefix)

\* C5 amended: a failed read of the fixed part is reported as "malformed
\* gzip header"; a failed read of xlen, a subfield tag, sublen, a payload,
\* a byte of a text field or the header CRC is reported with the
\* description of the reader's own error ("end of file" at the end of the
\* stream); neither is one of the three validation errors.
C5_ReadFailuresByPlace ==
    (Done /\ ReadFailed) =>
        /\ (\E i \in 1..Len(log) : ~log[i].ok /\ log[i].site \in PrefixSites)
               => result = RetErr(ErrPrefix)
        /\ (\A i \in 1..Len(log) : ~log[i].ok => log[i].site \notin PrefixSites)
               => result = RetErr(ErrEof)
        /\ result[2] \notin {ErrMagic, ErrFextra, ErrUtf8}

C5_Witness ==
    /\ FailedWith(ErrEof) /\ ~LastRead.ok /\ LastRead.site = "payload"
    /\ fextra_count = 1

---------------------------------------------------------------------------
(* C6 *)

\* The FEXTRA list as the stream declares it, from byte index p with x
\* bytes of the list left: "ok", "malformed" or "truncated"
RECURSIVE ListVerdict(_, _)
ListVerdict(p, x) ==
    IF x = 0 THEN "ok"
    ELSE IF x < 4 THEN "malformed"
    ELSE IF p + 4 > Len(stream) THEN "truncated"
    ELSE LET sl == stream[p + 3] + 256 * stream[p + 4]
         IN  IF sl > x - 4 THEN "malformed"
             ELSE IF p + 4 + sl > Len(stream) THEN "truncated"
             ELSE ListVerdict(p + 4 + sl, x - 4 - sl)

\* C6: with FEXTRA set, the call fails with "malformed FEXTRA" exactly when
\* some turn of the loop starts with 1, 2 or 3 bytes of the list left, or a
\* subfield's sublen exceeds what is left after its 4 tag and length
\* bytes; the sublen test comes before any payload byte is read.
C6_MalformedExtraExactly ==
    /\ (Done /\ Len(stream) >= 12 /\ ~BadMagic /\ Has(4)) =>
           (result = RetErr(ErrFextra) <=> ListVerdict(12, DeclaredXlen) = "malformed")
    /\ (Done /\ ~(Len(stream) >= 12 /\ ~BadMagic /\ Has(4))) =>
           result # RetErr(ErrFextra)
    /\ (FailedWith(ErrFextra) /\ LastRead.site = "sublen") =>
           /\ LastRead.ok /\ LastRead.v > xlen
           /\ pos = 12 + 4 * (fextra_count + 1) + SumV(At("payload"))

C6_Witness ==
    /\ FailedWith(ErrFextra) /\ LastRead.site = "sublen"
    /\ DeclaredXlen = 10 /\ LastRead.v = 20 /\ pos = Len(stream)

---------------------------------------------------------------------------
(* C7 *)

NameStart == 10 + (IF Has(4) THEN 2 + DeclaredXlen ELSE 0)

\* C7: with FNAME and FCOMMENT set, a returned header's name is the bytes
\* from the end of the extra section up to the first zero byte, its
\* comment the bytes from there up to the next zero byte, the header CRC
\* the two bytes after that; the zeros are consumed and belong to
\* neither, and a field that starts with its zero is the empty string.
C7_TextFieldsInOrder ==
    (Succeeded /\ Has(8) /\ Has(16)) =>
        LET z1 == ZeroAfter(NameStart)
            z2 == ZeroAfter(z1)
            h == result[2]
        IN  /\ z1 > 0 /\ z2 > 0
            /\ h.fname = Some(SubSeq(stream, NameStart + 1, z1 - 1))
            /\ h.fcomment = Some(SubSeq(stream, z1 + 1, z2 - 1))
            /\ Has(2) => h.fhcrc = Some(stream[z2 + 1] + 256 * stream[z2 + 2])
            /\ pos = z2 + (IF Has(2) THEN 2 ELSE 0)

C7_Witness ==
    /\ Succeeded /\ StreamFlg = 28 /\ fextra_count = 1
    /\ result[2].fname = Some(<<>>) /\ result[2].fcomment = Some(<<97>>)

---------------------------------------------------------------------------
(* C8 *)

TextSites == {"namebyte", "commentbyte"}
Terminated(site) == \E i \in 1..Len(log) : log[i].site = site /\ log[i].ok /\ log[i].v = 0
RECURSIVE Values(_)
Values(es) == IF es = <<>> THEN <<>> ELSE <<Head(es).v>> \o Values(Tail(es))
FieldBytes(site) ==
    Values(SelectSeq(log, LAMBDA en : en.site = site /\ en.ok /\ en.v # 0))

\* C8: the call fails with "expected utf8 string" iff the zero byte of a
\* name or comment was read and the bytes before it are not UTF-8; a field
\* whose stream ends before its zero byte fails as a failed read, whatever
\* its bytes; after an invalid name neither the comment nor the header CRC
\* is read.
C8_InvalidTextOnlyAfterTerminator ==
    Done =>
        /\ result = RetErr(ErrUtf8) <=>
               \E f \in TextSites : Terminated(f) /\ ~IsUtf8(FieldBytes(f))
        /\ (Terminated("namebyte") /\ ~IsUtf8(FieldBytes("namebyte"))) =>
               /\ LastRead.site = "namebyte"
               /\ At("commentbyte") = <<>> /\ At("hcrc") = <<>>
        /\ (Len(log) > 0 /\ LastRead.site \in TextSites /\ ~LastRead.ok) =>
               result = RetErr(ErrEof)

C8_Witness ==
    /\ FailedWith(ErrUtf8) /\ StreamFlg = 31
    /\ FieldBytes("namebyte") = <<255>> /\ pos < Len(stream)

---------------------------------------------------------------------------
(* C9 *)

AfterExtraPcs == {"fname", "namebyte", "nameutf8", "fcomment", "commentbyte",
                  "commentutf8", "fhcrc", "hcrc", "ok"}
ExtraReturned == (pc \in AfterExtraPcs \/ Succeeded) /\ Has(4)

\* C9: when handle_fextra returns a count, the xlen left is 0, the count
\* is the number of subfields read, and 4 * count + the sum of their
\* sublen values is the declared xlen.
C9_CountAccountsForXlen ==
    ExtraReturned =>
        /\ xlen = 0
        /\ fextra_count = Len(At("payload"))
        /\ Len(At("sublen")) = fextra_count
        /\ 4 * fextra_count + SumV(At("sublen")) = DeclaredXlen
        /\ DeclaredXlen = 0 => fextra_count = 0
        /\ (pc = "fname" /\ DeclaredXlen = 4) => (fextra_count = 1 /\ pos = 16)

C9_Witness ==
    /\ pc = "fname" /\ Has(4) /\ DeclaredXlen = 10 /\ fextra_count = 2
    /\ SumV(At("sublen")) = 2

---------------------------------------------------------------------------
(* C10 *)

\* C10: xlen never wraps: xlen - 4 is computed only from xlen >= 4 and
\* xlen - len only from len <= xlen; each completed turn of the loop takes
\* at least 4 off xlen, and no more than declared xlen / 4 turns are made.
C10_XlenNeverWraps ==
    /\ pc \in {"tag1", "tag2", "sublen"} => xlen >= 4
    /\ pc = "payload" => len <= xlen
    /\ pc \in {"while", "tag1", "tag2", "sublen"} =>
           /\ xlen = DeclaredXlen - 4 * fextra_count - SumV(At("payload"))
           /\ xlen <= DeclaredXlen - 4 * fextra_count
    /\ pc = "payload" => xlen = DeclaredXlen - 4 * (fextra_count + 1) - SumV(At("payload"))
    /\ (\E i \in 1..Len(log) : log[i].site = "xlen" /\ log[i].ok) =>
           /\ fextra_count <= DeclaredXlen \div 4
           /\ Len(At("tag1")) <= DeclaredXlen \div 4

C10_Witness ==
    /\ pc = "payload" /\ DeclaredXlen = 65535 /\ fextra_count = 1
    /\ xlen = 65535 - 9

====
